---- MODULE Spec2Model ----
(***************************************************************************)
(* The autoregressive decoder of min-dalle                                 *)
(* (min_dalle/models/dalle_bart_decoder_torch.py): construction of         *)
(* DalleBartDecoderTorch, its generation loop (forward), one decode_step   *)
(* with the per-layer key/value cache update, the guidance blend and the   *)
(* truncated sampling weights.                                             *)
(*                                                                         *)
(* The learned projections (k_proj, v_proj, lm_head, the embeddings) are   *)
(* uninterpreted: a projected key or value is the symbolic term            *)
(* <<kind, layer, branch, token_index, prev_token>>, and the logits that   *)
(* lm_head produces for the two batch branches are drawn from a bounded    *)
(* family of integer vectors.  Everything the code itself decides (masks,  *)
(* torch.where selections, slicing, sorting, the comparison against the    *)
(* cut-off, the loop) is computed as the code computes it.                 *)
(***************************************************************************)
EXTENDS Integers, Sequences, FiniteSets, TLC

VARIABLES
    pc,                 \* "init", "built", "forward", "done", "ctor_error", "error"
    SETTINGS,           \* [USE_CUDA |-> BOOLEAN]  (settings.SETTINGS)
    cuda_available,     \* whether the host has a CUDA device
    self,               \* the attributes DalleBartDecoderTorch.__init__ sets
    keys_values_state,  \* forward: the cache, row -> slot -> entry
    image_token,        \* forward: the token fed to the next decode_step
    image_tokens,       \* forward: the list of sampled tokens
    i,                  \* forward: the loop index
    raised,             \* "" or the place of the exception that ended the run
    requested,          \* the step indices decode_step was called with
    written,            \* the <<row, slot>> pairs torch.where took from the new key/value
    self_attn_mask,     \* the last step's self-attention mask, layer -> branch -> slot -> BOOLEAN
    lm_logits,          \* the last step's lm_head output, branch -> vocabulary index -> logit
    logits,             \* the last step's blended logits
    probs,              \* the last step's weights returned by decode_step
    uniq_top,           \* the tokens that were the unique top logit at every step so far
    sole_weight,        \* the tokens that were the only non-zero weight at every step so far
    stdout,             \* the progress lines printed
    text_tokens,        \* forward's argument: the prompt tokens, branch -> sequence of token ids
    encoder_state,      \* forward's argument: the encoder memory, branch -> memory
    attention_mask,     \* the last step's cross-attention mask, layer -> branch -> position -> BOOLEAN
    calls,              \* the arguments of every decode_step call, in order
    returns,            \* per completed step: the cache decode_step returned and the token drawn
    self_attn_read,     \* the last step's cache as self-attention read it, layer -> rows
    other_run           \* the same run, same draws, with is_verbose negated

vars == <<pc, SETTINGS, cuda_available, self, keys_values_state, image_token,
          image_tokens, i, raised, requested, written, self_attn_mask,
          lm_logits, logits, probs, uniq_top, sole_weight, stdout,
          text_tokens, encoder_state, attention_mask, calls, returns,
          self_attn_read, other_run>>

----------------------------------------------------------------------------
(* Bounds of the model. *)

MaxTokenCount == 3      \* image_token_count ranges over 1..MaxTokenCount
MaxLayerCount == 2      \* layer_count is 1 or MaxLayerCount
MaxVocab == 2           \* image_vocab_size ranges over 1..MaxVocab in a generation run

(* Constants of the program. *)

TopK == 50              \* logits.sort(descending=True)[0][:50]
ConditionFactor == 10   \* self.condition_factor = torch.tensor([10])
ExpUnderflow == 104     \* torch.exp on float32: exp(x) is 0.0 exactly when x <= -104

(* The inputs the model draws from. *)

BatchCounts == {2}                  \* the conditional and the unconditional branch
EmbedCounts == {2, 3}
HeadCounts == {2}
PeakHeights == {1, 12}
GuidanceFactors == {0, 1, 2, ConditionFactor}

(* The smallest decoder and the deepest one the bound allows. *)
LayerCounts == {1, MaxLayerCount}

(* The prompts forward is called with: one token sequence per branch, the  *)
(* pad token being 1: no padding; padding in both branches, more of it in  *)
(* the unconditional one.                                                  *)
TextTokenInputs ==
    { [b \in 0..1 |-> IF b = 0 THEN <<0, 2, 3>> ELSE <<0, 2, 2>>],
      [b \in 0..1 |-> IF b = 0 THEN <<0, 2, 1>> ELSE <<0, 1, 1>>] }

(* The encoder memory of each branch, uninterpreted. *)
EncoderStateInputs == { [b \in 0..1 |-> <<"memory", b>>] }

forward_state == <<text_tokens, encoder_state, attention_mask, calls, returns,
                   self_attn_read, other_run>>

Min(a, b) == IF a < b THEN a ELSE b

----------------------------------------------------------------------------
(* The lm_head output: one integer logit vector per batch branch over the  *)
(* vocabulary indices 0..image_vocab_size.                                 *)

Flat(V) == [v \in 0..V |-> 0]
Ramp(V) == [v \in 0..V |-> v]
Peak(V, t, h) == [v \in 0..V |-> IF v = t THEN h ELSE 0]
Plateau(V, c) == [v \in 0..V |-> IF v < c THEN 1 ELSE 0]

CondVecs(V) ==
    {Flat(V), Ramp(V)}
      \cup {Peak(V, t, h) : t \in {0, V}, h \in PeakHeights}
      \cup {Plateau(V, c) : c \in {TopK - 1, TopK} \cap (1..V)}

UncondVecs(V) == {Flat(V), Peak(V, 0, 1)}

LmHead(V) == {[b \in 0..1 |-> IF b = 0 THEN c ELSE u] : c \in CondVecs(V), u \in UncondVecs(V)}

(* The lm_head outputs a generation run draws from at each step: all logits *)
(* equal; distinct logits with weights that do not underflow; one logit so *)
(* far above the others that their weights underflow.                      *)
Pair(c, u) == [b \in 0..1 |-> IF b = 0 THEN c ELSE u]
RunLmHead(V) ==
    {Pair(Flat(V), Flat(V)), Pair(Ramp(V), Flat(V)), Pair(Peak(V, V, 12), Peak(V, 0, 1))}

----------------------------------------------------------------------------
(* decode_step, lines 201-218: guidance blend and truncated weights.       *)

(* The two branches taken the other way round. *)
BlendSwapped(a, lm) == [v \in DOMAIN lm[0] |-> a * lm[1][v] + (1 - a) * lm[0][v]]

Blend(a, lm) == [v \in DOMAIN lm[0] |-> a * lm[0][v] + (1 - a) * lm[1][v]]

RECURSIVE InsertDescending(_, _)
InsertDescending(s, x) ==
    IF s = <<>> THEN <<x>>
    ELSE IF x > Head(s) THEN <<x>> \o s
    ELSE <<Head(s)>> \o InsertDescending(Tail(s), x)

RECURSIVE SortedUpTo(_, _)
SortedUpTo(f, n) == IF n < 0 THEN <<>> ELSE InsertDescending(SortedUpTo(f, n - 1), f[n])

(* logits.sort(descending=True)[0]: the values, largest first. *)
SortDescending(f) == SortedUpTo(f, Cardinality(DOMAIN f) - 1)

(* A slice one entry too long. *)
TopLogitsOneMore(lg) == LET s == SortDescending(lg) IN SubSeq(s, 1, Min(TopK + 1, Len(s)))

(* ...[:50]: a slice takes what there is when there are fewer than 50. *)
TopLogits(lg) == LET s == SortDescending(lg) IN SubSeq(s, 1, Min(TopK, Len(s)))

(* The float32 value exp(x) for x <= 0, coded so that the order and the    *)
(* two values the code depends on are exact: ExpUnderflow codes 1.0, 0     *)
(* codes 0.0, and a code in between is a positive weight below 1.          *)
Exp(x) == IF x > -ExpUnderflow THEN x + ExpUnderflow ELSE 0

One == Exp(0)

(* The cut-off compared with <= instead of <. *)
ProbsCutOffIncluded(lg) ==
    LET top_logits == TopLogits(lg)
        data_b == [v \in DOMAIN lg |-> Exp(lg[v] - top_logits[1])]
    IN  [v \in DOMAIN lg |-> IF lg[v] <= top_logits[Len(top_logits)] THEN 0 ELSE data_b[v]]

(* Weights taken relative to the cut-off instead of the largest logit. *)
ProbsMinusCutOff(lg) ==
    LET top_logits == TopLogits(lg)
        data_b == [v \in DOMAIN lg |-> Exp(lg[v] - top_logits[Len(top_logits)])]
    IN  [v \in DOMAIN lg |-> IF lg[v] < top_logits[Len(top_logits)] THEN 0 ELSE data_b[v]]

Probs(lg) ==
    LET top_logits == TopLogits(lg)
        data_b == [v \in DOMAIN lg |-> Exp(lg[v] - top_logits[1])]
    IN  [v \in DOMAIN lg |-> IF lg[v] < top_logits[Len(top_logits)] THEN 0 ELSE data_b[v]]

(* The indices that carry a non-zero weight. *)
NonZero(p) == {v \in DOMAIN p : p[v] # 0}

(* A draw that ignores the weights. *)
MultinomialAnyIndex(p) == DOMAIN p

(* torch.multinomial(probs, 1): the indices it can draw. *)
Multinomial(p) == {v \in DOMAIN p : p[v] > 0}

----------------------------------------------------------------------------
(* The key/value cache.                                                    *)

Zero == <<>>            \* an entry of torch.zeros(keys_values_state_shape)

(* k_proj / v_proj of the decoder state of one branch in one layer; the    *)
(* state is determined by the token fed in and its position.               *)
Proj(kind, layer, b, token_index, prev_token) == <<kind, layer, b, token_index, prev_token>>

ZeroCache(shape) == [r \in 0..(shape[1] - 1) |-> [p \in 0..(shape[2] - 1) |-> Zero]]

(* keys_values_state[j1:j2], re-indexed from 0. *)
Slice(ks, j1, j2) == [r \in 0..(j2 - j1 - 1) |-> ks[j1 + r]]

(* A mask that also selects the slots before token_index. *)
TokenMaskUpTo(token_count, token_index) == [p \in 0..(token_count - 1) |-> p <= token_index]

(* A mask that selects the slot after token_index. *)
TokenMaskNextSlot(token_count, token_index) == [p \in 0..(token_count - 1) |-> p = token_index + 1]

(* DecoderSelfAttentionTorch.forward, lines 42-45. *)
TokenMask(token_count, token_index) == [p \in 0..(token_count - 1) |-> p = token_index]

(* A cache whose first half holds the values and second half the keys. *)
SelfAttnUpdateValuesFirst(layer, keys_values, batch_count, token_index, prev_token) ==
    LET token_count == Cardinality(DOMAIN keys_values[0])
        keys == [b \in 0..(batch_count - 1) |-> Proj("k", layer, b, token_index, prev_token)]
        values == [b \in 0..(batch_count - 1) |-> Proj("v", layer, b, token_index, prev_token)]
        cat == [r \in 0..(2 * batch_count - 1) |->
                    IF r < batch_count THEN values[r] ELSE keys[r - batch_count]]
        token_mask == TokenMask(token_count, token_index)
    IN  [r \in DOMAIN keys_values |->
            [p \in DOMAIN keys_values[r] |->
                IF token_mask[p] THEN cat[r] ELSE keys_values[r][p]]]

(* DecoderSelfAttentionTorch.forward, lines 36-51: the cache it returns. *)
SelfAttnUpdate(layer, keys_values, batch_count, token_index, prev_token) ==
    LET token_count == Cardinality(DOMAIN keys_values[0])
        keys == [b \in 0..(batch_count - 1) |-> Proj("k", layer, b, token_index, prev_token)]
        values == [b \in 0..(batch_count - 1) |-> Proj("v", layer, b, token_index, prev_token)]
        cat == [r \in 0..(2 * batch_count - 1) |->
                    IF r < batch_count THEN keys[r] ELSE values[r - batch_count]]
        token_mask == TokenMask(token_count, token_index)
    IN  [r \in DOMAIN keys_values |->
            [p \in DOMAIN keys_values[r] |->
                IF token_mask[p] THEN cat[r] ELSE keys_values[r][p]]]

(* Attention over the cache as it was before the update. *)
SelfAttnReadsStale(keys_values, updated, batch_count) ==
    [keys |-> Slice(keys_values, 0, batch_count),
     values |-> Slice(keys_values, batch_count, 2 * batch_count)]

(* DecoderSelfAttentionTorch.forward, lines 54-55: the keys and values     *)
(* attention gets are the two halves of the cache torch.where returned.    *)
SelfAttnReads(keys_values, updated, batch_count) ==
    [keys |-> Slice(updated, 0, batch_count),
     values |-> Slice(updated, batch_count, 2 * batch_count)]

(* A mask that admits the position after the current one. *)
SelfAttnMaskOneMore(image_token_count, batch_count, token_index) ==
    [b \in 0..(batch_count - 1) |->
        [p \in 0..(image_token_count - 1) |-> p < token_index + 2]]

(* A mask without the current position. *)
SelfAttnMaskStrict(image_token_count, batch_count, token_index) ==
    [b \in 0..(batch_count - 1) |->
        [p \in 0..(image_token_count - 1) |-> p < token_index]]

(* DecoderLayerTorch.forward, lines 87-92. *)
SelfAttnMask(image_token_count, batch_count, token_index) ==
    [b \in 0..(batch_count - 1) |->
        [p \in 0..(image_token_count - 1) |-> p < token_index + 1]]

(* AttentionTorch.forward: the key positions that can get non-zero weight  *)
(* are those the mask admits.                                              *)
AttendedPositions(mask) == {p \in DOMAIN mask : mask[p]}

(* A mask that takes 0 for the pad token. *)
AttentionMaskPadZero(tokens, pad_token) ==
    [b \in DOMAIN tokens |-> [q \in DOMAIN tokens[b] |-> tokens[b][q] # 0]]

(* decode_step, line 181: text_tokens.not_equal(self.pad_token). *)
AttentionMask(tokens, pad_token) ==
    [b \in DOMAIN tokens |-> [q \in DOMAIN tokens[b] |-> tokens[b][q] # pad_token]]

(* An in-place scaling that reaches the encoder memory. *)
ArgumentsAfterScaledInPlace(tokens, memory) ==
    <<tokens, [b \in DOMAIN memory |-> <<"scaled", memory[b]>>]>>

(* decode_step's tensor arguments as they are when it returns.  Its        *)
(* in-place operations (decoder_state += ..., line 186; queries /= ...,    *)
(* lines 25 and 53) act on tensors the call itself created; not_equal,     *)
(* k_proj and v_proj return new tensors.                                   *)
ArgumentsAfter(tokens, memory) == <<tokens, memory>>

----------------------------------------------------------------------------
(* DalleBartDecoderTorch.__init__, lines 122-172.                          *)

NoDecoder ==
    [is_verbose |-> FALSE, layer_count |-> 0, sample_token_count |-> 0,
     start_token |-> 0, pad_token |-> 0, condition_factor |-> 0,
     image_token_count |-> 0, image_vocab_size |-> 0, embed_count |-> 0,
     attention_head_count |-> 0, batch_count |-> 0,
     keys_values_state_shape |-> <<0, 0, 0, 0>>]

NewDecoder(image_vocab_size, image_token_count, sample_token_count, embed_count, attention_head_count, layer_count, batch_count, start_token, is_verbose) ==
    [is_verbose |-> is_verbose,
     layer_count |-> layer_count,
     sample_token_count |-> sample_token_count,
     start_token |-> start_token,
     pad_token |-> 1,
     condition_factor |-> ConditionFactor,
     image_token_count |-> image_token_count,
     image_vocab_size |-> image_vocab_size,
     embed_count |-> embed_count,
     attention_head_count |-> attention_head_count,
     batch_count |-> batch_count,
     keys_values_state_shape |->
        <<layer_count * 2 * batch_count,
          image_token_count,
          attention_head_count,
          embed_count \div attention_head_count>>]

----------------------------------------------------------------------------
(* DalleBartDecoderTorch.decode_step, lines 175-218.                       *)

(* A decode step whose position embedding accepts any index. *)
DecodeStepRaisesNoPositionCheck(dec, settings, prev_token, token_index) ==
    IF prev_token > dec.image_vocab_size THEN "embed_tokens"
    ELSE IF dec.keys_values_state_shape[3] * dec.keys_values_state_shape[4] # dec.embed_count
         THEN "view"
    ELSE IF ~settings.USE_CUDA THEN "to_cuda"
    ELSE ""

(* The exception decode_step raises, "" when it returns.                   *)
(*   embed_tokens / embed_positions: nn.Embedding raises IndexError on an  *)
(*     index outside its table (lines 153-154, 185-186);                   *)
(*   view: k_proj's output has embed_count features and is viewed as       *)
(*     head_count x (embed_count // head_count) (lines 38-39);             *)
(*   to_cuda: data_b.to('cuda') is not guarded by SETTINGS["USE_CUDA"]     *)
(*     (line 216): without a device it raises, with one torch.where gets   *)
(*     tensors of two devices and raises.                                  *)
DecodeStepRaises(dec, settings, prev_token, token_index) ==
    IF prev_token > dec.image_vocab_size THEN "embed_tokens"
    ELSE IF token_index >= dec.image_token_count THEN "embed_positions"
    ELSE IF dec.keys_values_state_shape[3] * dec.keys_values_state_shape[4] # dec.embed_count
         THEN "view"
    ELSE IF ~settings.USE_CUDA THEN "to_cuda"
    ELSE ""

(* A stride of batch_count instead of 2 * batch_count. *)
LayerRowsHalfStride(ks, layer, batch_count) ==
    Slice(ks, layer * batch_count, layer * batch_count + 2 * batch_count)

(* The rows layer i hands to its self-attention: keys_values_state[j1:j2]. *)
LayerRows(ks, layer, batch_count) ==
    Slice(ks, layer * 2 * batch_count, (layer + 1) * 2 * batch_count)

(* Lines 189-200: every layer updates its slice, torch.cat joins them.     *)
DecodeStepKeysValues(dec, ks, prev_token, token_index) ==
    LET batch_count == dec.batch_count
        keys_values == [layer \in 0..(dec.layer_count - 1) |->
            SelfAttnUpdate(layer, LayerRows(ks, layer, batch_count),
                           batch_count, token_index, prev_token)]
    IN  [r \in 0..(dec.layer_count * 2 * batch_count - 1) |->
            keys_values[r \div (2 * batch_count)][r % (2 * batch_count)]]

(* The <<row, slot>> pairs where torch.where took the new key or value.    *)
DecodeStepWrites(dec, ks, token_index) ==
    {rp \in (DOMAIN ks) \X (0..(dec.image_token_count - 1)) :
        TokenMask(Cardinality(DOMAIN ks[rp[1]]), token_index)[rp[2]]}

DecodeStepMasks(dec, token_index) ==
    [layer \in 0..(dec.layer_count - 1) |->
        SelfAttnMask(dec.image_token_count, dec.batch_count, token_index)]

(* What every layer's self-attention read at this step. *)
DecodeStepSelfAttnReads(dec, ks, prev_token, token_index) ==
    [layer \in 0..(dec.layer_count - 1) |->
        SelfAttnReads(LayerRows(ks, layer, dec.batch_count),
                      SelfAttnUpdate(layer, LayerRows(ks, layer, dec.batch_count),
                                     dec.batch_count, token_index, prev_token),
                      dec.batch_count)]

(* Lines 190-198 and 105-109: every layer's cross-attention gets the mask. *)
DecodeStepCrossMasks(dec, tokens) ==
    [layer \in 0..(dec.layer_count - 1) |-> AttentionMask(tokens, dec.pad_token)]

ArgMax(lg) == {v \in DOMAIN lg : \A w \in DOMAIN lg : lg[w] <= lg[v]}

----------------------------------------------------------------------------
(* The generation run.                                                     *)

Init ==
    /\ pc = "init"
    /\ SETTINGS \in [USE_CUDA : BOOLEAN]
    /\ cuda_available \in BOOLEAN
    /\ self = NoDecoder
    /\ keys_values_state = <<>>
    /\ image_token = 0
    /\ image_tokens = <<>>
    /\ i = 0
    /\ raised = ""
    /\ requested = <<>>
    /\ written = {}
    /\ self_attn_mask = <<>>
    /\ lm_logits = <<>>
    /\ logits = <<>>
    /\ probs = <<>>
    /\ uniq_top = {}
    /\ sole_weight = {}
    /\ stdout = <<>>
    /\ text_tokens = <<>>
    /\ encoder_state = <<>>
    /\ attention_mask = <<>>
    /\ calls = <<>>
    /\ returns = <<>>
    /\ self_attn_read = <<>>
    /\ other_run = <<>>

(* __init__: no argument is validated; the only way it raises is a move to *)
(* a device that does not exist (lines 143-146).                           *)
Construct ==
    /\ pc = "init"
    /\ \E image_vocab_size \in 1..MaxVocab,
          image_token_count \in 1..MaxTokenCount,
          sample_token_count \in 1..(MaxTokenCount + 1),
          embed_count \in EmbedCounts,
          attention_head_count \in HeadCounts,
          layer_count \in LayerCounts,
          batch_count \in BatchCounts,
          is_verbose \in BOOLEAN :
        IF SETTINGS.USE_CUDA /\ ~cuda_available
        THEN /\ pc' = "ctor_error"
             /\ raised' = "to_cuda"
             /\ self' = self
        ELSE /\ pc' = "built"
             /\ raised' = raised
             /\ self' = NewDecoder(image_vocab_size, image_token_count,
                                   sample_token_count, embed_count,
                                   attention_head_count, layer_count, batch_count,
                                   image_vocab_size, is_verbose)
    /\ UNCHANGED <<SETTINGS, cuda_available, keys_values_state, image_token,
                   image_tokens, i, requested, written, self_attn_mask,
                   lm_logits, logits, probs, uniq_top, sole_weight, stdout, forward_state>>

(* forward's locals, with what it has requested, printed and raised. *)
Run ==
    [pc |-> pc, keys_values_state |-> keys_values_state, image_token |-> image_token,
     image_tokens |-> image_tokens, i |-> i, raised |-> raised,
     requested |-> requested, stdout |-> stdout]

(* The same decoder with the verbosity flag negated. *)
OtherVerbosity(dec) == [dec EXCEPT !.is_verbose = ~@]

(* forward, lines 225-231. *)
ForwardLocals(dec, run) ==
    [run EXCEPT !.pc = "forward",
                !.keys_values_state = ZeroCache(dec.keys_values_state_shape),
                !.image_tokens = <<>>,
                !.image_token = dec.start_token,
                !.i = 0]

(* The step index before the token. *)
PrevTokenAndIndexSwapped(token, token_index) == <<token_index, token>>

(* forward, line 244: torch.cat([image_token, token_index]); decode_step   *)
(* takes the first element as prev_token and the second as token_index     *)
(* (lines 183-184).                                                        *)
PrevTokenAndIndex(token, token_index) == <<token, token_index>>

(* forward, lines 250-253: the progress line. *)
Verbose(dec, out, token_index, token) ==
    IF dec.is_verbose THEN Append(out, <<token_index, token>>) ELSE out

(* A verbose block that rebinds image_token. *)
ImageTokenAfterPrintRebound(dec, token) == IF dec.is_verbose THEN 0 ELSE token

(* forward, lines 247-253: the verbose block converts image_token into the *)
(* local `token`; image_token itself stays the tensor that was drawn.      *)
ImageTokenAfterPrint(dec, token) == token

(* Where one iteration of the loop raises, "" when it does not. *)
LoopRaises(dec, settings, run, lm) ==
    LET x == PrevTokenAndIndex(run.image_token, run.i)
        in_step == DecodeStepRaises(dec, settings, x[1], x[2])
    IN  IF in_step # "" THEN in_step
        ELSE IF Multinomial(Probs(Blend(dec.condition_factor, lm))) = {} THEN "multinomial"
        ELSE ""

(* One iteration of the loop, lines 233-253, given what lm_head produces   *)
(* and the index torch.multinomial draws.                                  *)
LoopBody(dec, settings, run, lm, token) ==
    LET x == PrevTokenAndIndex(run.image_token, run.i)
        where == LoopRaises(dec, settings, run, lm)
    IN  IF where # ""
        THEN [run EXCEPT !.pc = "error", !.raised = where,
                         !.requested = Append(@, x[2])]
        ELSE [run EXCEPT !.keys_values_state = DecodeStepKeysValues(dec, @, x[1], x[2]),
                         !.image_token = ImageTokenAfterPrint(dec, token),
                         !.image_tokens = Append(@, token),
                         !.stdout = Verbose(dec, @, run.i, token),
                         !.requested = Append(@, x[2]),
                         !.i = @ + 1]

(* The loop of forward, lines 233 and 255, taken one iteration at a time. *)
Iterate(dec, settings, run, lm, token) ==
    IF run.pc = "forward" /\ run.i < dec.sample_token_count
    THEN LoopBody(dec, settings, run, lm, token)
    ELSE run

LoopEnd(dec, run) ==
    IF run.pc = "forward" /\ run.i = dec.sample_token_count
    THEN [run EXCEPT !.pc = "done"]
    ELSE run

(* forward, lines 225-231. *)
ForwardBegin ==
    /\ pc = "built"
    /\ LET next == ForwardLocals(self, Run)
       IN  /\ pc' = next.pc
           /\ keys_values_state' = next.keys_values_state
           /\ image_tokens' = next.image_tokens
           /\ image_token' = next.image_token
           /\ i' = next.i
    /\ other_run' = ForwardLocals(OtherVerbosity(self), Run)
    /\ uniq_top' = 0..self.image_vocab_size
    /\ sole_weight' = 0..self.image_vocab_size
    /\ text_tokens' \in TextTokenInputs
    /\ encoder_state' \in EncoderStateInputs
    /\ UNCHANGED <<SETTINGS, cuda_available, self, raised, requested, written,
                   self_attn_mask, lm_logits, logits, probs, stdout,
                   attention_mask, calls, returns, self_attn_read>>

(* One iteration of the loop, lines 233-253, when nothing raises. *)
ForwardStep ==
    /\ pc = "forward"
    /\ i < self.sample_token_count
    /\ \E lm \in RunLmHead(self.image_vocab_size) :
        LET lg == Blend(self.condition_factor, lm)
            p == Probs(lg)
        IN  /\ LoopRaises(self, SETTINGS, Run, lm) = ""
            /\ \E token \in Multinomial(p) :
                \E next \in {LoopBody(self, SETTINGS, Run, lm, token)} :
                    /\ keys_values_state' = next.keys_values_state
                    /\ image_token' = next.image_token
                    /\ image_tokens' = next.image_tokens
                    /\ stdout' = next.stdout
                    /\ requested' = next.requested
                    /\ i' = next.i
                    /\ returns' = Append(returns, [keys_values_state |-> next.keys_values_state,
                                                   image_token |-> token])
                    /\ other_run' = Iterate(OtherVerbosity(self), SETTINGS, other_run, lm, token)
            /\ lm_logits' = lm
            /\ logits' = lg
            /\ probs' = p
            /\ uniq_top' = IF Cardinality(ArgMax(lg)) = 1 THEN uniq_top \cap ArgMax(lg) ELSE {}
            /\ sole_weight' = IF Cardinality(NonZero(p)) = 1
                              THEN sole_weight \cap NonZero(p) ELSE {}
    /\ LET x == PrevTokenAndIndex(image_token, i)
       IN  /\ calls' = Append(calls, [prev_token |-> x[1], token_index |-> x[2],
                                      keys_values_state |-> keys_values_state])
           /\ written' = written \cup DecodeStepWrites(self, keys_values_state, x[2])
           /\ self_attn_mask' = DecodeStepMasks(self, x[2])
           /\ self_attn_read' = DecodeStepSelfAttnReads(self, keys_values_state, x[1], x[2])
    /\ attention_mask' = DecodeStepCrossMasks(self, text_tokens)
    /\ text_tokens' = ArgumentsAfter(text_tokens, encoder_state)[1]
    /\ encoder_state' = ArgumentsAfter(text_tokens, encoder_state)[2]
    /\ UNCHANGED <<pc, SETTINGS, cuda_available, self, raised>>

(* One iteration of the loop in which decode_step or torch.multinomial     *)
(* raises: the exception leaves forward, nothing is returned.              *)
ForwardStepRaises ==
    /\ pc = "forward"
    /\ i < self.sample_token_count
    /\ \E lm \in RunLmHead(self.image_vocab_size) :
        /\ LoopRaises(self, SETTINGS, Run, lm) # ""
        /\ LET next == LoopBody(self, SETTINGS, Run, lm, 0)
           IN  /\ pc' = next.pc
               /\ raised' = next.raised
               /\ requested' = next.requested
        /\ other_run' = Iterate(OtherVerbosity(self), SETTINGS, other_run, lm, 0)
    /\ LET x == PrevTokenAndIndex(image_token, i)
       IN  calls' = Append(calls, [prev_token |-> x[1], token_index |-> x[2],
                                   keys_values_state |-> keys_values_state])
    /\ text_tokens' = ArgumentsAfter(text_tokens, encoder_state)[1]
    /\ encoder_state' = ArgumentsAfter(text_tokens, encoder_state)[2]
    /\ UNCHANGED <<SETTINGS, cuda_available, self, keys_values_state, image_token,
                   image_tokens, i, written, self_attn_mask, lm_logits, logits,
                   probs, uniq_top, sole_weight, stdout,
                   attention_mask, returns, self_attn_read>>

(* forward, line 255: the loop is over, torch.cat(image_tokens) is returned. *)
ForwardReturn ==
    /\ pc = "forward"
    /\ i = self.sample_token_count
    /\ pc' = LoopEnd(self, Run).pc
    /\ other_run' = LoopEnd(OtherVerbosity(self), other_run)
    /\ UNCHANGED <<SETTINGS, cuda_available, self, keys_values_state, image_token,
                   image_tokens, i, raised, requested, written, self_attn_mask,
                   lm_logits, logits, probs, uniq_top, sole_weight, stdout,
                   text_tokens, encoder_state, attention_mask, calls, returns,
                   self_attn_read>>

Next == Construct \/ ForwardBegin \/ ForwardStep \/ ForwardStepRaises \/ ForwardReturn

Spec == Init /\ [][Next]_vars

----------------------------------------------------------------------------
(* The tail of decode_step (lines 201-218) and the draw (line 247) as a     *)
(* function of the lm_head output and the guidance factor, over            *)
(* vocabularies on both sides of the 50-entry cut-off.                     *)

TailVocabSizes == {1, TopK - 2, TopK - 1, TopK, TopK + 1}

InitTail ==
    /\ pc = "tail"
    /\ SETTINGS = [USE_CUDA |-> TRUE]
    /\ cuda_available = TRUE
    /\ \E V \in TailVocabSizes, a \in GuidanceFactors :
        /\ self = [NoDecoder EXCEPT !.image_vocab_size = V, !.condition_factor = a]
        /\ lm_logits \in LmHead(V)
    /\ keys_values_state = <<>>
    /\ image_token = 0
    /\ image_tokens = <<>>
    /\ i = 0
    /\ raised = ""
    /\ requested = <<>>
    /\ written = {}
    /\ self_attn_mask = <<>>
    /\ logits = <<>>
    /\ probs = <<>>
    /\ uniq_top = {}
    /\ sole_weight = {}
    /\ stdout = <<>>
    /\ text_tokens = <<>>
    /\ encoder_state = <<>>
    /\ attention_mask = <<>>
    /\ calls = <<>>
    /\ returns = <<>>
    /\ self_attn_read = <<>>
    /\ other_run = <<>>

(* Lines 203-218. *)
TailWeights ==
    /\ pc = "tail"
    /\ pc' = "weights"
    /\ logits' = Blend(self.condition_factor, lm_logits)
    /\ probs' = Probs(logits')
    /\ UNCHANGED <<SETTINGS, cuda_available, self, keys_values_state, image_token,
                   image_tokens, i, raised, requested, written, self_attn_mask,
                   lm_logits, uniq_top, sole_weight, stdout, forward_state>>

(* Line 247. *)
TailDraw ==
    /\ pc = "weights"
    /\ pc' = "drawn"
    /\ image_token' \in Multinomial(probs)
    /\ UNCHANGED <<SETTINGS, cuda_available, self, keys_values_state,
                   image_tokens, i, raised, requested, written, self_attn_mask,
                   lm_logits, logits, probs, uniq_top, sole_weight, stdout, forward_state>>

NextTail == TailWeights \/ TailDraw

SpecTail == InitTail /\ [][NextTail]_vars

----------------------------------------------------------------------------
(* Properties of the generation run, checked under Spec.                   *)

Started == pc \in {"forward", "done", "error"}

Repeated(t, n) == [k \in 1..n |-> t]

(* C1. Cache write-once: a step never changes a cache entry at a position  *)
(* below the loop index, i.e. an entry written by an earlier step; by      *)
(* induction over the steps the entry at p after step s2 is the entry at p *)
(* after step s1 for all p <= s1 < s2.                                     *)
C1_CacheWriteOnce ==
    [][\A r \in DOMAIN keys_values_state : \A p \in DOMAIN keys_values_state[r] :
          p < i => keys_values_state'[r][p] = keys_values_state[r][p]]_vars

(* Three steps done, and slot 0 of every row still holds what step 0 wrote. *)
C1_Witness ==
    /\ pc = "forward" /\ i = 3
    /\ \A r \in DOMAIN keys_values_state :
          /\ keys_values_state[r][0] # Zero
          /\ keys_values_state[r][0][4] = 0
          /\ keys_values_state[r][0][5] = self.start_token

(* C2. Causal visibility: the self-attention mask built at step s = i - 1  *)
(* admits, in every layer and both batch branches, exactly the cache       *)
(* positions <= s, so attention gives no weight to a position > s.         *)
C2_CausalVisibility ==
    i > 0 =>
        /\ DOMAIN self_attn_mask = 0..(self.layer_count - 1)
        /\ \A layer \in DOMAIN self_attn_mask :
              /\ DOMAIN self_attn_mask[layer] = 0..(self.batch_count - 1)
              /\ \A b \in DOMAIN self_attn_mask[layer] :
                    AttendedPositions(self_attn_mask[layer][b])
                        = {p \in 0..(self.image_token_count - 1) : p <= i - 1}

(* Step 1 of a two-layer decoder with three slots: slots 0, 1 admitted, 2 not. *)
C2_Witness ==
    /\ pc = "forward" /\ i = 2
    /\ self.layer_count = 2 /\ self.image_token_count = 3
    /\ \A b \in 0..1 : AttendedPositions(self_attn_mask[1][b]) = {0, 1}

(* C3. Sequence length: a run that has ended has made exactly              *)
(* sample_token_count decode steps and returned sample_token_count tokens, *)
(* each in 0..image_vocab_size.                                            *)
C3_SequenceLength ==
    pc \in {"done", "error"} =>
        /\ pc = "done"
        /\ Len(requested) = self.sample_token_count
        /\ Len(image_tokens) = self.sample_token_count
        /\ \A k \in 1..Len(image_tokens) : image_tokens[k] \in 0..self.image_vocab_size

(* C7. Shape mismatch is fatal at construction: a decoder that was built   *)
(* has an embed_count divisible by attention_head_count.                   *)
C7_ShapeMismatchFatal ==
    pc \in {"built", "forward", "done", "error"} =>
        self.embed_count % self.attention_head_count = 0

(* C8. The generation loop never calls decode_step with a step index       *)
(* >= image_token_count.                                                   *)
C8_StepWithinCapacity ==
    \A k \in 1..Len(requested) : requested[k] < self.image_token_count

(* C9 as stated: when one token was the unique top logit at every step,    *)
(* the returned sequence is that token repeated sample_token_count times.  *)
C9_UniqueTopRepeated ==
    pc = "done" => \A t \in uniq_top : image_tokens = Repeated(t, self.sample_token_count)

(* C9 amended: when one token was the only entry with a non-zero weight at *)
(* every step, the returned sequence is that token repeated                *)
(* sample_token_count times.                                               *)
C9_SoleWeightRepeated ==
    pc = "done" => \A t \in sole_weight : image_tokens = Repeated(t, self.sample_token_count)

(* A three-step run over a vocabulary of three entries in which one token  *)
(* alone had weight at every step.                                         *)
C9_Witness ==
    /\ pc = "done"
    /\ self.sample_token_count = 3 /\ self.image_vocab_size = 2
    /\ sole_weight = {2}
    /\ image_tokens = <<2, 2, 2>>

(* C10. Cache fill progress: after i completed steps, in every row of      *)
(* every layer exactly the slots 0..i-1 were written, and every slot >= i  *)
(* holds the zero placeholder; the cache keeps its rows and slots; a run   *)
(* that returns has completed sample_token_count steps, so with            *)
(* sample_token_count = image_token_count every slot is populated.         *)
C10_CacheFillProgress ==
    Started =>
        /\ DOMAIN keys_values_state = 0..(self.layer_count * 2 * self.batch_count - 1)
        /\ \A r \in DOMAIN keys_values_state :
              /\ DOMAIN keys_values_state[r] = 0..(self.image_token_count - 1)
              /\ \A p \in DOMAIN keys_values_state[r] :
                    /\ <<r, p>> \in written <=> p < i
                    /\ keys_values_state[r][p] = Zero <=> p >= i
        /\ written \subseteq (DOMAIN keys_values_state) \X (0..(self.image_token_count - 1))
        /\ pc = "done" => i = self.sample_token_count

(* A full run of a two-layer decoder with three steps and three slots. *)
C10_Witness ==
    /\ pc = "done"
    /\ self.sample_token_count = 3 /\ self.image_token_count = 3
    /\ self.layer_count = 2
    /\ \A r \in 0..7 : \A p \in 0..2 : keys_values_state[r][p] # Zero

(* C11. Cross-attention mask: the mask every layer's cross-attention gets  *)
(* at a step admits a prompt position of a branch if and only if the       *)
(* prompt token there differs from the pad token, so a pad position gets   *)
(* no weight in any branch.                                                *)
C11_CrossAttentionMask ==
    i > 0 =>
        /\ DOMAIN attention_mask = 0..(self.layer_count - 1)
        /\ \A layer \in DOMAIN attention_mask :
              /\ DOMAIN attention_mask[layer] = 0..(self.batch_count - 1)
              /\ \A b \in DOMAIN attention_mask[layer] :
                    AttendedPositions(attention_mask[layer][b])
                        = {q \in DOMAIN text_tokens[b] : text_tokens[b][q] # self.pad_token}

(* A two-layer decoder after a step on a prompt padded in both branches. *)
C11_Witness ==
    /\ pc = "forward" /\ i = 1
    /\ self.layer_count = 2
    /\ text_tokens[0] = <<0, 2, 1>> /\ text_tokens[1] = <<0, 1, 1>>
    /\ AttendedPositions(attention_mask[1][0]) = {1, 2}
    /\ AttendedPositions(attention_mask[1][1]) = {1}

(* C14. The encoder memory and the prompt tokens are read-only: no step of *)
(* a run changes either, so both end the run with the value they had when  *)
(* forward was called.                                                     *)
C14_ArgumentsReadOnly ==
    [][pc = "forward" => text_tokens' = text_tokens /\ encoder_state' = encoder_state]_vars

(* A completed three-step run of a two-layer decoder, arguments intact. *)
C14_Witness ==
    /\ pc = "done" /\ i = 3
    /\ self.layer_count = 2
    /\ encoder_state \in EncoderStateInputs
    /\ text_tokens \in TextTokenInputs

(* C12. Feedback order of the generation loop: the first call of          *)
(* decode_step gets the start token, step index 0 and the zeroed cache;    *)
(* call number k+1 gets step index k, the token drawn after call k and the *)
(* cache call k returned; the token drawn at step k is element k of the    *)
(* sequence, and the sequence only ever grows at its end.                  *)
C12_FeedbackOrder ==
    /\ [](Started =>
            /\ Len(calls) \in {Len(returns), Len(returns) + 1}
            /\ \A k \in 1..Len(calls) :
                  /\ calls[k].token_index = k - 1
                  /\ calls[k].prev_token =
                        IF k = 1 THEN self.start_token ELSE returns[k - 1].image_token
                  /\ calls[k].keys_values_state =
                        IF k = 1
                        THEN [r \in 0..(self.layer_count * 2 * self.batch_count - 1) |->
                                [p \in 0..(self.image_token_count - 1) |-> Zero]]
                        ELSE returns[k - 1].keys_values_state
            /\ Len(image_tokens) = Len(returns)
            /\ \A k \in 1..Len(returns) : image_tokens[k] = returns[k].image_token
            /\ pc = "done" => Len(returns) = self.sample_token_count)
    /\ [][pc = "forward" =>
            /\ Len(image_tokens') >= Len(image_tokens)
            /\ \A k \in 1..Len(image_tokens) : image_tokens'[k] = image_tokens[k]]_vars

(* A completed three-step run: the second and third call were fed          *)
(* different tokens, and the third got a cache with two slots filled.      *)
C12_Witness ==
    /\ pc = "done" /\ Len(calls) = 3
    /\ calls[2].prev_token # calls[3].prev_token
    /\ calls[3].prev_token = image_tokens[2]
    /\ calls[3].keys_values_state[0][1] # Zero
    /\ calls[3].keys_values_state[0][2] = Zero

C15_VerbosityObservationOnly ==
    Started =>
        /\ other_run.pc = pc
        /\ other_run.requested = requested
        /\ other_run.keys_values_state = keys_values_state
        /\ other_run.image_token = image_token
        /\ other_run.image_tokens = image_tokens
        /\ other_run.i = i
        /\ other_run.raised = raised

(* A completed verbose three-step run that drew a non-zero token, next to  *)
(* the silent run.                                                         *)
C15_Witness ==
    /\ pc = "done" /\ self.is_verbose
    /\ Len(stdout) = 3 /\ stdout[3] = <<2, image_tokens[3]>>
    /\ image_tokens[1] # 0
    /\ other_run.stdout = <<>>
    /\ other_run.pc = "done"
    /\ other_run.image_tokens = image_tokens

(* C16. Frame of the self-attention cache update: a step with index i      *)
(* returns a cache equal to the one it got at every slot but i, slot i of  *)
(* every row holds the key (key half) or value (value half) projected at   *)
(* this step for the row's layer and branch, and self-attention reads the  *)
(* rows of the returned cache.                                             *)
C16_CacheUpdateFrame ==
    [][(pc = "forward" /\ i' = i + 1) =>
        LET batch_count == self.batch_count
        IN  /\ DOMAIN keys_values_state' = DOMAIN keys_values_state
            /\ \A r \in DOMAIN keys_values_state :
                  /\ DOMAIN keys_values_state'[r] = DOMAIN keys_values_state[r]
                  /\ \A p \in DOMAIN keys_values_state[r] :
                        keys_values_state'[r][p] =
                            IF p = i
                            THEN Proj(IF (r % (2 * batch_count)) < batch_count THEN "k" ELSE "v",
                                      r \div (2 * batch_count), r % batch_count, i, image_token)
                            ELSE keys_values_state[r][p]
            /\ \A layer \in 0..(self.layer_count - 1) : \A b \in 0..(batch_count - 1) :
                  /\ self_attn_read'[layer].keys[b]
                        = keys_values_state'[layer * 2 * batch_count + b]
                  /\ self_attn_read'[layer].values[b]
                        = keys_values_state'[layer * 2 * batch_count + batch_count + b]]_vars

(* After the second step of a two-layer decoder with three slots: slots 0  *)
(* and 1 are filled, slot 2 is not, and the last layer read slot 1.        *)
C16_Witness ==
    /\ pc = "forward" /\ i = 2
    /\ self.layer_count = 2 /\ self.image_token_count = 3
    /\ keys_values_state[0][0] # Zero /\ keys_values_state[0][1] # Zero
    /\ keys_values_state[0][2] = Zero
    /\ self_attn_read[1].values[1][1] = keys_values_state[7][1]
    /\ self_attn_read[1].values[1][1] # Zero

(* C17. Per-layer cache threading: the cache always has                    *)
(* layer_count * 2 * batch_count rows of image_token_count slots, every    *)
(* filled entry of row r was computed by layer r \div (2 * batch_count),   *)
(* each layer reads its own row range of the cache, and an entry a step    *)
(* changes is one its own layer computed.                                  *)
C17_LayerThreading ==
    /\ [](Started =>
            LET batch_count == self.batch_count
            IN  /\ DOMAIN keys_values_state = 0..(self.layer_count * 2 * batch_count - 1)
                /\ \A r \in DOMAIN keys_values_state :
                      /\ DOMAIN keys_values_state[r] = 0..(self.image_token_count - 1)
                      /\ \A p \in DOMAIN keys_values_state[r] :
                            keys_values_state[r][p] # Zero =>
                                keys_values_state[r][p][2] = r \div (2 * batch_count)
                /\ i > 0 =>
                      /\ DOMAIN self_attn_read = 0..(self.layer_count - 1)
                      /\ \A layer \in DOMAIN self_attn_read :
                            /\ \A b \in 0..(batch_count - 1) :
                                  /\ self_attn_read[layer].keys[b]
                                        = keys_values_state[layer * 2 * batch_count + b]
                                  /\ self_attn_read[layer].values[b]
                                        = keys_values_state[layer * 2 * batch_count + batch_count + b])
    /\ [][pc = "forward" =>
            \A r \in DOMAIN keys_values_state : \A p \in DOMAIN keys_values_state[r] :
                keys_values_state'[r][p] # keys_values_state[r][p] =>
                    keys_values_state'[r][p][2] = r \div (2 * self.batch_count)]_vars

(* A completed two-step run of a two-layer decoder: the first slot of the  *)
(* second layer's first row still holds what that layer wrote at step 0.   *)
C17_Witness ==
    /\ pc = "done" /\ i >= 2
    /\ self.layer_count = 2
    /\ keys_values_state[4][0] = Proj("k", 1, 0, 0, self.start_token)
    /\ keys_values_state[3][1][2] = 0
    /\ keys_values_state[4][1][2] = 1

(* C19. An invalid step index is fatal: a decode step called with a step   *)
(* index of image_token_count or more is the last call of the run, the run *)
(* ends in an error, and the call returns nothing: no token is drawn and   *)
(* the cache is the one the call was given.                                *)
C19_InvalidStepIndexFatal ==
    Started =>
        \A k \in 1..Len(calls) :
            calls[k].token_index >= self.image_token_count =>
                /\ pc = "error" /\ raised # ""
                /\ k = Len(calls)
                /\ Len(returns) = k - 1
                /\ Len(image_tokens) = k - 1
                /\ keys_values_state = calls[k].keys_values_state

(* A run asked for three tokens with two slots: the third call raises in   *)
(* the position embedding, with both slots filled by the earlier calls.    *)
C19_Witness ==
    /\ pc = "error" /\ raised = "embed_positions"
    /\ self.image_token_count = 2
    /\ Len(calls) = 3 /\ calls[3].token_index = 2
    /\ Len(returns) = 2
    /\ keys_values_state[0][1] # Zero

(* C20. Self-attention never reads an unwritten slot: after every step, in *)
(* every layer and branch, each position the causal mask admitted held a   *)
(* written key and a written value when attention read the cache; no zero  *)
(* placeholder is attended to.                                             *)
C20_NoUnwrittenRead ==
    (Started /\ i > 0) =>
        LET batch_count == self.batch_count
        IN  \A layer \in DOMAIN self_attn_mask : \A b \in DOMAIN self_attn_mask[layer] :
                \A p \in AttendedPositions(self_attn_mask[layer][b]) :
                    /\ self_attn_read[layer].keys[b][p] # Zero
                    /\ self_attn_read[layer].values[b][p] # Zero
                    /\ <<layer * 2 * batch_count + b, p>> \in written
                    /\ <<layer * 2 * batch_count + batch_count + b, p>> \in written

(* After the second of three steps of a two-layer decoder: positions 0 and *)
(* 1 are admitted and filled, position 2 is neither.                       *)
C20_Witness ==
    /\ pc = "forward" /\ i = 2
    /\ self.layer_count = 2 /\ self.image_token_count = 3
    /\ AttendedPositions(self_attn_mask[1][1]) = {0, 1}
    /\ self_attn_read[1].keys[1][0] # Zero /\ self_attn_read[1].keys[1][1] # Zero
    /\ self_attn_read[1].keys[1][2] = Zero

----------------------------------------------------------------------------
(* Properties of the tail of decode_step, checked under SpecTail.          *)

Weighed == pc \in {"weights", "drawn"}

(* The number of vocabulary entries whose logit is strictly above v's. *)
Above(lg, v) == Cardinality({w \in DOMAIN lg : lg[w] > lg[v]})

(* C4 as stated: the weights are non-zero only on 50 highest-logit         *)
(* indices: at most 50 entries have weight, none of them below the 50th    *)
(* largest logit, and the drawn index is one of them.                      *)
C4_SupportWithinFifty ==
    Weighed =>
        /\ Cardinality(NonZero(probs)) <= TopK
        /\ \A v \in NonZero(probs) : Above(logits, v) < TopK
        /\ pc = "drawn" => image_token \in NonZero(probs)

(* C4 amended: the weights are non-zero only on indices whose logit is >=  *)
(* the 50th largest logit (fewer than 50 entries are strictly above them), *)
(* the drawn index is one of them, and they are at most 50 unless several  *)
(* entries tie with the 50th largest logit.                                *)
C4_SupportAtOrAboveCutOff ==
    Weighed =>
        /\ \A v \in NonZero(probs) : Above(logits, v) < TopK
        /\ pc = "drawn" => probs[image_token] > 0 /\ Above(logits, image_token) < TopK
        /\ (\A v, w \in DOMAIN logits : v # w => logits[v] # logits[w])
              => Cardinality(NonZero(probs)) <= TopK

(* 52 distinct logits: exactly 50 keep a weight, the two lowest are cut    *)
(* off although their weight would not underflow, and an index was drawn.  *)
C4_Witness ==
    /\ pc = "drawn"
    /\ Cardinality(DOMAIN logits) = TopK + 2
    /\ Cardinality(NonZero(probs)) = TopK
    /\ \E v \in DOMAIN logits :
          /\ probs[v] = 0
          /\ \A w \in DOMAIN logits : logits[w] - logits[v] < ExpUnderflow
    /\ probs[image_token] > 0

(* C5. The weights are never all zero: every entry holding the maximum     *)
(* logit keeps its weight, and that weight is exactly 1.                   *)
C5_TopWeightIsOne ==
    Weighed =>
        /\ \A v \in ArgMax(logits) : probs[v] = One
        /\ NonZero(probs) # {}

(* More than 50 entries of which all but the top one lose their weight. *)
C5_Witness ==
    /\ pc = "weights"
    /\ Cardinality(DOMAIN logits) > TopK
    /\ Cardinality(NonZero(probs)) = 1
    /\ \A v \in NonZero(probs) : probs[v] = One

(* C6. Guidance blend: with a the guidance factor, branch 0 the            *)
(* conditional and branch 1 the unconditional logits, the blended logits   *)
(* are uncond + a * (cond - uncond); a = 1 gives the conditional logits    *)
(* and a = 0 the unconditional logits.                                     *)
C6_GuidanceBlend ==
    Weighed =>
        /\ DOMAIN logits = DOMAIN lm_logits[0]
        /\ \A v \in DOMAIN logits :
              logits[v] - lm_logits[1][v]
                  = self.condition_factor * (lm_logits[0][v] - lm_logits[1][v])
        /\ self.condition_factor = 1 => logits = lm_logits[0]
        /\ self.condition_factor = 0 => logits = lm_logits[1]

(* a = 1 with two different branches. *)
C6_Witness ==
    /\ pc = "weights"
    /\ self.condition_factor = 1
    /\ lm_logits[0] # lm_logits[1]
    /\ logits = lm_logits[0]

(* The 50th largest of the logits counted with repetition, the smallest    *)
(* when there are fewer than 50: fewer than that many entries lie strictly *)
(* above it and at least that many at or above it.                         *)
FiftiethLargest(lg) ==
    LET count == IF Cardinality(DOMAIN lg) < TopK THEN Cardinality(DOMAIN lg) ELSE TopK
    IN  CHOOSE m \in {lg[v] : v \in DOMAIN lg} :
            /\ Cardinality({w \in DOMAIN lg : lg[w] > m}) < count
            /\ Cardinality({w \in DOMAIN lg : lg[w] >= m}) >= count

MaxLogit(lg) == CHOOSE x \in {lg[v] : v \in DOMAIN lg} : \A w \in DOMAIN lg : lg[w] <= x

(* C18 as stated: the entries with weight 0 are exactly those whose logit  *)
(* is below m, the 50th largest blended logit, and every entry at or above *)
(* m has the weight exp(logit - max_logit).                                *)
C18_ZeroExactlyBelowCutOff ==
    Weighed =>
        \A v \in DOMAIN logits :
            /\ probs[v] = 0 <=> logits[v] < FiftiethLargest(logits)
            /\ logits[v] >= FiftiethLargest(logits) =>
                  probs[v] = Exp(logits[v] - MaxLogit(logits))

(* C18 amended: every entry whose logit is below m has weight 0 and every  *)
(* entry at or above m has the float32 value of exp(logit - max_logit),    *)
(* which is itself 0 once the logit is far enough below the largest; the   *)
(* weights are not normalised, every entry at the maximum has weight 1.    *)
C18_TruncationRule ==
    Weighed =>
        /\ DOMAIN probs = DOMAIN logits
        /\ \A v \in DOMAIN logits :
              probs[v] = IF logits[v] < FiftiethLargest(logits)
                         THEN 0
                         ELSE Exp(logits[v] - MaxLogit(logits))
        /\ \A v \in DOMAIN logits : logits[v] = MaxLogit(logits) => probs[v] = One

(* More than 50 entries: one below the cut-off with weight 0, one at or    *)
(* above it with a weight between 0 and 1, and one at or above it whose    *)
(* weight underflowed to 0.                                                *)
C18_Witness ==
    /\ pc = "weights"
    /\ Cardinality(DOMAIN logits) > TopK
    /\ \E v \in DOMAIN logits : logits[v] < FiftiethLargest(logits) /\ probs[v] = 0
    /\ \E v \in DOMAIN logits : probs[v] # 0 /\ probs[v] # One
    /\ \E v \in DOMAIN logits : logits[v] >= FiftiethLargest(logits) /\ probs[v] = 0

====
